---- MODULE Spec2Model ----
(***************************************************************************)
(* Model of app.py: the Streamlit script that loads OpportunityCanvas.csv, *)
(* clips the constraint columns, filters by a Total Impact slider, builds  *)
(* hover texts and hands a 3D scatter dataset to Plotly.                   *)
(*                                                                         *)
(* Numbers are fixed-point: a cell value v stands for the number v/Scale,  *)
(* so that non-integer cells (2.5, 10.5, -1.5) exist in the model.  The    *)
(* slider bounds and the selected range are plain integers, as int() and   *)
(* st.slider make them.                                                    *)
(*                                                                         *)
(* Line 12 of app.py is read as the body of the try block whose except     *)
(* clause is at line 13.                                                   *)
(***************************************************************************)
EXTENDS Integers, Sequences, FiniteSets, TLC

\* ------------------------------------------------------------------ bounds
MaxRows == 2
Scale == 2

\* --------------------------------------------------------------- constants
ClipLo == 1
ClipHi == 10

problem_col == "Problem"
tech_col == "Tech"
cost_col == "Cost"
time_col == "Time"
regs_col == "Regulations"
social_col == "Social Acceptance"
sum_constraints_col == "Sum Constraints"
iq_col == "IQ"
ql_col == "QL"
total_impact_col == "Total Impact"
notes_col == "Notes"
bubble_col == "BubbleSize"

constraint_cols == <<cost_col, time_col, regs_col>>

\* Header of the CSV, in file order.
csv_columns ==
  <<problem_col, tech_col, cost_col, time_col, regs_col, social_col,
    sum_constraints_col, iq_col, ql_col, total_impact_col, notes_col>>

Range(s) == {s[i] : i \in 1..Len(s)}

\* ------------------------------------------------------------ CSV contents
\* (Cost, Time, Regulations) cells of a record: one above 10 / below 1 /
\* in range, one with fractional parts (2.5, 3.5, 10.5 when Scale = 2),
\* one negative / below 1 / fractional (-3, 0.5, 1.5 when Scale = 2).
ConstraintInputs ==
  { <<12 * Scale, 0, 5 * Scale>>,
    <<(5 * Scale) \div 2, (7 * Scale) \div 2, (21 * Scale) \div 2>>,
    <<-(3 * Scale), Scale \div 2, (3 * Scale) \div 2>> }

\* Total Impact cells: a negative non-integer, two integers, a non-integer.
TotalImpactInputs ==
  { -((3 * Scale) \div 2), 1 * Scale, 2 * Scale, (5 * Scale) \div 2 }

SocialInput == 5 * Scale

MkRow(k, ti) ==
  (problem_col :> "P") @@ (tech_col :> "T") @@
  (cost_col :> k[1]) @@ (time_col :> k[2]) @@ (regs_col :> k[3]) @@
  (social_col :> SocialInput) @@
  (sum_constraints_col :> k[1] + k[2] + k[3] + SocialInput) @@
  (iq_col :> 3 * Scale) @@ (ql_col :> 4 * Scale) @@
  (total_impact_col :> ti) @@ (notes_col :> "n")

CsvRows == { MkRow(k, ti) : k \in ConstraintInputs, ti \in TotalImpactInputs }

CsvTables == UNION { [1..n -> CsvRows] : n \in 0..MaxRows }

\* ------------------------------------------------------- numeric helpers
\* Series.clip(lower, upper)
Clip(v, lo, hi) == IF v < lo THEN lo ELSE IF v > hi THEN hi ELSE v

\* Series.round(): numpy rounds half to even.  Result as a whole number.
Round(v) ==
  LET q == v \div Scale
      r == v % Scale
  IN  IF 2 * r < Scale THEN q
      ELSE IF 2 * r > Scale THEN q + 1
      ELSE IF q % 2 = 0 THEN q ELSE q + 1

\* int(x) and astype(int): truncation toward zero.  Result as a whole number.
Trunc(v) == IF v >= 0 THEN v \div Scale ELSE -((-v) \div Scale)

ClipNoLower(v) == Trunc(Round(Clip(v, 0, ClipHi * Scale)) * Scale) * Scale
RoundOnly(v) == Trunc(Round(v) * Scale) * Scale
\* df[c].clip(1, 10).round().astype(int), one cell
ClipRound(v) ==
  Trunc(Round(Clip(v, ClipLo * Scale, ClipHi * Scale)) * Scale) * Scale

NormalizeRecomputeSum(row) ==
  LET r == [c \in DOMAIN row |->
              IF c \in Range(constraint_cols) THEN ClipRound(row[c]) ELSE row[c]]
  IN  [r EXCEPT ![sum_constraints_col] =
         r[cost_col] + r[time_col] + r[regs_col] + r[social_col]]
\* the loop of lines 48-49, on one record
Normalize(row) ==
  [c \in DOMAIN row |->
     IF c \in Range(constraint_cols) THEN ClipRound(row[c]) ELSE row[c]]

RECURSIVE SeqMin(_)
SeqMin(s) ==
  IF Len(s) = 1 THEN s[1]
  ELSE LET m == SeqMin(Tail(s)) IN IF s[1] < m THEN s[1] ELSE m

RECURSIVE SeqMax(_)
SeqMax(s) ==
  IF Len(s) = 1 THEN s[1]
  ELSE LET m == SeqMax(Tail(s)) IN IF s[1] > m THEN s[1] ELSE m

\* df[col] as a sequence of cells
Column(data, col) == [i \in 1..Len(data) |-> data[i][col]]

InRangeStrict(v, lo, hi) == v > lo * Scale /\ v < hi * Scale
\* (df[total_impact_col] >= min_val) & (df[total_impact_col] <= max_val)
InRange(v, lo, hi) == v >= lo * Scale /\ v <= hi * Scale

\* --------------------------------------------------------------- hover text
LineLabelRaw(col) == col
\* the name printed for a column (lines 84-89)
LineLabel(col) ==
  IF col = iq_col THEN "Impact Quantity"
  ELSE IF col = ql_col THEN "Impact Quality"
  ELSE col

\* f"{name}: {val}" as the tokens it is made of
Line(col, val) == <<LineLabel(col), ": ", val>>

RECURSIVE JoinBr(_)
\* "<br>".join(lines)
JoinBr(lines) ==
  IF Len(lines) = 0 THEN <<>>
  ELSE IF Len(lines) = 1 THEN lines[1]
  ELSE lines[1] \o <<"<br>">> \o JoinBr(Tail(lines))

\* body of the loop of lines 80-90, for one record
HoverText(cols, row) ==
  JoinBr([k \in 1..Len(cols) |-> Line(cols[k], row[cols[k]])])

\* -------------------------------------------------------------- the figure
Scatter3dSizeFromColor(dff, texts) ==
  [ x |-> Column(dff.data, cost_col),
    y |-> Column(dff.data, time_col),
    z |-> Column(dff.data, regs_col),
    text |-> texts,
    size |-> Column(dff.data, sum_constraints_col),
    color |-> Column(dff.data, sum_constraints_col) ]
\* go.Scatter3d(...) of lines 97-112
Scatter3d(dff, texts) ==
  [ x |-> Column(dff.data, cost_col),
    y |-> Column(dff.data, time_col),
    z |-> Column(dff.data, regs_col),
    text |-> texts,
    size |-> Column(dff.data, bubble_col),
    color |-> Column(dff.data, sum_constraints_col) ]

\* ------------------------------------------------------------------- state
VARIABLES
  file,         \* the CSV on disk: [exists, rows]
  widget,       \* the slider's value kept by the session: <<>> or <<lo, hi>>
  pc,           \* position of the current run of main()
  ui,           \* elements drawn by the current run, in order
  df,           \* [columns, index, data]
  impact_min, impact_max,
  min_val, max_val,
  df_filtered,  \* [columns, index, data]
  hover_texts,
  fig,          \* <<>> or <<trace>>
  memo          \* history: <<>> or one earlier completed run

vars == <<file, widget, pc, ui, df, impact_min, impact_max, min_val, max_val,
          df_filtered, hover_texts, fig, memo>>

EmptyFrame == [columns |-> <<>>, index |-> <<>>, data |-> <<>>]

Files ==
  { [exists |-> FALSE, rows |-> <<>>] } \cup
  { [exists |-> TRUE, rows |-> t] : t \in CsvTables }

Init ==
  /\ file \in Files
  /\ widget = <<>>
  /\ pc = "start"
  /\ ui = <<>>
  /\ df = EmptyFrame
  /\ impact_min = 0 /\ impact_max = 0
  /\ min_val = 0 /\ max_val = 0
  /\ df_filtered = EmptyFrame
  /\ hover_texts = <<>>
  /\ fig = <<>>
  /\ memo = <<>>

\* ----------------------------------------------------------------- actions
\* st.title, then try: pd.read_csv / except: st.error(f"... {csv_path} ...").
\* csv_path is bound nowhere, so building the message raises NameError
\* before st.error is called.
Load ==
  /\ pc = "start"
  /\ IF file.exists
       THEN /\ df' = [columns |-> csv_columns,
                      index |-> [i \in 1..Len(file.rows) |-> i],
                      data |-> file.rows]
            /\ pc' = "loaded"
       ELSE /\ df' = df
            /\ pc' = "exception"
  /\ ui' = <<"title">>
  /\ UNCHANGED <<file, widget, impact_min, impact_max, min_val, max_val,
                 df_filtered, hover_texts, fig, memo>>

\* st.subheader, st.write(df), then the clip/round loop
NormalizeStep ==
  /\ pc = "loaded"
  /\ ui' = ui \o <<"subheader", "table">>
  /\ df' = [df EXCEPT !.data = [i \in 1..Len(df.data) |-> Normalize(df.data[i])]]
  /\ pc' = "normalized"
  /\ UNCHANGED <<file, widget, impact_min, impact_max, min_val, max_val,
                 df_filtered, hover_texts, fig, memo>>

\* impact_min / impact_max and st.slider.  min() of an empty column is NaN
\* and int(NaN) raises ValueError.
Slider ==
  /\ pc = "normalized"
  /\ IF Len(df.data) = 0
       THEN /\ pc' = "exception"
            /\ UNCHANGED <<ui, impact_min, impact_max, min_val, max_val, widget>>
       ELSE LET lo == Trunc(SeqMin(Column(df.data, total_impact_col)))
                hi == Trunc(SeqMax(Column(df.data, total_impact_col)))
                v  == IF widget = <<>> THEN <<lo, hi>> ELSE widget
            IN  /\ impact_min' = lo
                /\ impact_max' = hi
                /\ ui' = ui \o <<"subheader", "slider">>
                /\ widget' = v
                /\ min_val' = v[1]
                /\ max_val' = v[2]
                /\ pc' = "slider"
  /\ UNCHANGED <<file, df, df_filtered, hover_texts, fig, memo>>

FilterWriteBack ==
  /\ pc = "slider"
  /\ LET keep == SelectSeq(df.index,
                   LAMBDA i : InRange(df.data[i][total_impact_col], min_val, max_val))
         rows == [k \in 1..Len(keep) |-> df.data[keep[k]]]
     IN  /\ df_filtered' =
               [columns |-> Append(df.columns, bubble_col),
                index |-> keep,
                data |-> [k \in 1..Len(keep) |->
                            rows[k] @@ (bubble_col :> rows[k][total_impact_col])]]
         /\ file' = [file EXCEPT !.rows = rows]
  /\ pc' = "filtered"
  /\ UNCHANGED <<widget, ui, df, impact_min, impact_max, min_val, max_val,
                 hover_texts, fig, memo>>
\* the boolean-mask selection of line 65 and the new column of line 71
Filter ==
  /\ pc = "slider"
  /\ LET keep == SelectSeq(df.index,
                   LAMBDA i : InRange(df.data[i][total_impact_col], min_val, max_val))
         rows == [k \in 1..Len(keep) |-> df.data[keep[k]]]
     IN  df_filtered' =
           [columns |-> Append(df.columns, bubble_col),
            index |-> keep,
            data |-> [k \in 1..Len(keep) |->
                        rows[k] @@ (bubble_col :> rows[k][total_impact_col])]]
  /\ pc' = "filtered"
  /\ UNCHANGED <<file, widget, ui, df, impact_min, impact_max, min_val, max_val,
                 hover_texts, fig, memo>>

\* lines 78-90
Describe ==
  /\ pc = "filtered"
  /\ LET original_cols == df_filtered.columns
     IN  hover_texts' = [k \in 1..Len(df_filtered.data) |->
                           HoverText(original_cols, df_filtered.data[k])]
  /\ pc' = "described"
  /\ UNCHANGED <<file, widget, ui, df, impact_min, impact_max, min_val, max_val,
                 df_filtered, fig, memo>>

\* go.Figure, update_layout, st.plotly_chart.  memo may keep this run.
Render ==
  /\ pc = "described"
  /\ fig' = <<Scatter3d(df_filtered, hover_texts)>>
  /\ ui' = Append(ui, "chart")
  /\ pc' = "done"
  /\ \E keepRun \in BOOLEAN :
       memo' = IF memo = <<>>
                 THEN IF keepRun
                        THEN <<[range |-> <<min_val, max_val>>,
                                df_filtered |-> df_filtered,
                                fig |-> fig',
                                between |-> FALSE]>>
                        ELSE <<>>
                 ELSE IF memo[1].range # <<min_val, max_val>>
                        THEN <<[memo[1] EXCEPT !.between = TRUE]>>
                        ELSE memo
  /\ UNCHANGED <<file, widget, df, impact_min, impact_max, min_val, max_val,
                 df_filtered, hover_texts>>

\* The user moves the slider: the session keeps the new value and the
\* script runs again from the top with fresh locals.
SliderChange ==
  /\ pc = "done"
  /\ \E lo \in impact_min..impact_max, hi \in impact_min..impact_max :
       /\ lo <= hi
       /\ <<lo, hi>> # widget
       /\ widget' = <<lo, hi>>
  /\ pc' = "start"
  /\ ui' = <<>>
  /\ df' = EmptyFrame
  /\ impact_min' = 0 /\ impact_max' = 0
  /\ min_val' = 0 /\ max_val' = 0
  /\ df_filtered' = EmptyFrame
  /\ hover_texts' = <<>>
  /\ fig' = <<>>
  /\ UNCHANGED <<file, memo>>

Next ==
  \/ Load
  \/ NormalizeStep
  \/ Slider
  \/ Filter
  \/ Describe
  \/ Render
  \/ SliderChange

Spec == Init /\ [][Next]_vars

\* ------------------------------------------------------------- properties
AfterNormalize == pc \in {"normalized", "slider", "filtered", "described", "done"}
AfterFilter == pc \in {"filtered", "described", "done"}
AfterDescribe == pc \in {"described", "done"}

Abs(n) == IF n < 0 THEN -n ELSE n
IsInt1to10(v) == v % Scale = 0 /\ v >= 1 * Scale /\ v <= 10 * Scale
Retained == Range(df_filtered.index)
\* number of lines of a label: lines are 3 tokens, separated by one "<br>"
NumLines(t) == (Len(t) + 1) \div 4
LineName(t, j) == t[4 * j - 3]
LineVal(t, j) == t[4 * j - 1]

\* C1: with the slider at its default, the program's own
\* [impact_min, impact_max], the filter retains every row of the table.
C1_DefaultRangeRetainsAll ==
  (AfterFilter /\ min_val = impact_min /\ max_val = impact_max)
    => df_filtered.index = df.index

\* C2: after the normalize step every Cost, Time and Regulations cell is a
\* whole number in [1,10], in the table, in the retained rows and in the
\* coordinates handed to the renderer.
C2_ConstraintsIntegral1to10 ==
  /\ AfterNormalize =>
       \A i \in 1..Len(df.data) : \A c \in Range(constraint_cols) :
         IsInt1to10(df.data[i][c])
  /\ AfterFilter =>
       \A k \in 1..Len(df_filtered.data) : \A c \in Range(constraint_cols) :
         IsInt1to10(df_filtered.data[k][c])
  /\ pc = "done" =>
       \A k \in 1..Len(fig[1].x) :
         IsInt1to10(fig[1].x[k]) /\ IsInt1to10(fig[1].y[k]) /\ IsInt1to10(fig[1].z[k])

C2_Witness ==
  /\ pc = "done"
  /\ \E k \in 1..Len(df_filtered.index) :
       LET raw == file.rows[df_filtered.index[k]]
       IN  raw[cost_col] > 10 * Scale /\ raw[time_col] < 1 * Scale
  /\ \E k \in 1..Len(df_filtered.index) :
       file.rows[df_filtered.index[k]][cost_col] % Scale # 0

\* C3: each hover label has exactly one line per CSV column, in CSV column
\* order, and no line for anything that is not a CSV column.
C3_HoverLinesAreCsvColumns ==
  AfterDescribe =>
    \A k \in 1..Len(hover_texts) :
      /\ NumLines(hover_texts[k]) = Len(csv_columns)
      /\ \A j \in 1..NumLines(hover_texts[k]) :
           /\ j <= Len(csv_columns)
           /\ LineName(hover_texts[k], j) \in
                {csv_columns[j], "Impact Quantity", "Impact Quality"}

\* C4: when reading the CSV fails the run shows an error and halts in the
\* error outcome: no table, no slider, no chart, no unhandled exception.
C4_LoadFailureReported ==
  (~file.exists /\ pc # "start") =>
    /\ pc = "error"
    /\ "error" \in Range(ui)
    /\ Range(ui) \cap {"table", "slider", "chart"} = {}

\* C5: a row is retained iff min_val <= Total Impact <= max_val, bounds
\* included; retained rows keep their relative order; a range that excludes
\* every Total Impact value gives the empty set.
C5_FilterInclusiveRange ==
  AfterFilter =>
    /\ \A i \in 1..Len(df.data) :
         (i \in Retained) <=>
           ( min_val * Scale <= df.data[i][total_impact_col]
             /\ df.data[i][total_impact_col] <= max_val * Scale )
    /\ \A a, b \in 1..Len(df_filtered.index) :
         a < b => df_filtered.index[a] < df_filtered.index[b]
    /\ Len(df_filtered.data) = Len(df_filtered.index)
    /\ ( (\A i \in 1..Len(df.data) :
            df.data[i][total_impact_col] < min_val * Scale
            \/ df.data[i][total_impact_col] > max_val * Scale)
         => df_filtered.index = <<>> )

C5_Witness ==
  /\ AfterFilter
  /\ \E k \in 1..Len(df_filtered.index) :
       df_filtered.data[k][total_impact_col] = max_val * Scale
  /\ \E k \in 1..Len(df_filtered.index) :
       df_filtered.data[k][total_impact_col] = min_val * Scale
  /\ Len(df_filtered.index) < Len(df.index)

C5_WitnessEmpty ==
  AfterFilter /\ Len(df.index) > 0 /\ df_filtered.index = <<>>

\* C6: each constraint cell becomes a whole number nearest to the cell
\* clamped to [1,10]; in particular 12, 0 and 5 become 10, 1 and 5.
C6_ClipThenRound ==
  AfterNormalize =>
    \A i \in 1..Len(df.data) : \A c \in Range(constraint_cols) :
      LET v == file.rows[i][c]
          clamped == IF v < 1 * Scale THEN 1 * Scale
                     ELSE IF v > 10 * Scale THEN 10 * Scale ELSE v
          n == df.data[i][c]
      IN  /\ n % Scale = 0
          /\ 2 * Abs(n - clamped) <= Scale
          /\ v = 12 * Scale => n = 10 * Scale
          /\ v = 0 => n = 1 * Scale
          /\ v = 5 * Scale => n = 5 * Scale

C6_Witness ==
  /\ AfterNormalize
  /\ \E i \in 1..Len(df.data) :
       /\ file.rows[i][cost_col] = 12 * Scale
       /\ file.rows[i][time_col] = 0
       /\ file.rows[i][regs_col] = 5 * Scale
       /\ df.data[i][cost_col] = 10 * Scale
  /\ \E i \in 1..Len(df.data) :
       /\ 2 * (file.rows[i][cost_col] % Scale) = Scale
       /\ file.rows[i][cost_col] > 1 * Scale
       /\ file.rows[i][cost_col] < 10 * Scale

\* C7: in every hover label the line of IQ is named "Impact Quantity", the
\* line of QL "Impact Quality", every other line carries its column's name
\* as it is in the table, and each line's value is the row's own cell.
C7_HoverNamesAndValues ==
  AfterDescribe =>
    \A k \in 1..Len(hover_texts) :
      LET t == hover_texts[k]
          cols == df_filtered.columns
      IN  /\ Len(t) = 4 * Len(cols) - 1
          /\ \A j \in 1..Len(cols) :
               /\ cols[j] = "IQ" => LineName(t, j) = "Impact Quantity"
               /\ cols[j] = "QL" => LineName(t, j) = "Impact Quality"
               /\ cols[j] \notin {"IQ", "QL"} => LineName(t, j) = cols[j]
               /\ LineVal(t, j) = df_filtered.data[k][cols[j]]

C7_Witness ==
  /\ AfterDescribe
  /\ Len(hover_texts) = 2
  /\ LineName(hover_texts[1], 8) = "Impact Quantity"
  /\ LineName(hover_texts[2], 9) = "Impact Quality"
  /\ LineVal(hover_texts[1], 10) # LineVal(hover_texts[2], 10)

\* C8: only Cost, Time and Regulations are changed, and only by the
\* clip/round step: every other column keeps its CSV value from load to
\* render, Sum Constraints is not recomputed, and filtering changes no cell
\* and removes no row of the loaded table.
C8_OnlyConstraintColumnsChange ==
  /\ pc = "loaded" => df.data = file.rows
  /\ (pc = "loaded" \/ AfterNormalize) =>
       /\ df.columns = csv_columns
       /\ Len(df.data) = Len(file.rows)
       /\ \A i \in 1..Len(df.data) :
            \A c \in Range(csv_columns) \ Range(constraint_cols) :
              df.data[i][c] = file.rows[i][c]
  /\ AfterFilter =>
       \A k \in 1..Len(df_filtered.data) :
         /\ \A c \in Range(csv_columns) :
              df_filtered.data[k][c] = df.data[df_filtered.index[k]][c]
         /\ \A c \in Range(csv_columns) \ Range(constraint_cols) :
              df_filtered.data[k][c] = file.rows[df_filtered.index[k]][c]
  /\ pc = "done" =>
       \A k \in 1..Len(df_filtered.index) :
         /\ fig[1].color[k] = file.rows[df_filtered.index[k]][sum_constraints_col]
         /\ fig[1].size[k] = file.rows[df_filtered.index[k]][total_impact_col]

C8_Witness ==
  /\ pc = "done"
  /\ Len(df_filtered.index) < Len(df.index)
  /\ \E k \in 1..Len(df_filtered.data) :
       LET r == df_filtered.data[k]
       IN  r[sum_constraints_col] #
             r[cost_col] + r[time_col] + r[regs_col] + r[social_col]

\* C9: the dataset handed to the renderer has one point per retained row:
\* point k has that row's normalized (Cost, Time, Regulations), its Total
\* Impact as size, its Sum Constraints as color and its own hover text.
C9_DatasetAlignedWithRows ==
  pc = "done" =>
    /\ Len(fig) = 1
    /\ LET t == fig[1]
           n == Len(df_filtered.index)
       IN  /\ Len(t.x) = n /\ Len(t.y) = n /\ Len(t.z) = n
           /\ Len(t.size) = n /\ Len(t.color) = n /\ Len(t.text) = n
           /\ \A k \in 1..n :
                LET r == df.data[df_filtered.index[k]]
                IN  /\ t.x[k] = r[cost_col]
                    /\ t.y[k] = r[time_col]
                    /\ t.z[k] = r[regs_col]
                    /\ t.size[k] = r[total_impact_col]
                    /\ t.color[k] = r[sum_constraints_col]
                    /\ t.text[k] = hover_texts[k]
                    /\ LineVal(t.text[k], 3) = r[cost_col]
                    /\ LineVal(t.text[k], 10) = r[total_impact_col]

C9_Witness ==
  /\ pc = "done"
  /\ Len(fig[1].x) = 2
  /\ fig[1].size[1] # fig[1].size[2]
  /\ fig[1].x[1] # fig[1].x[2]
  /\ fig[1].size[1] # fig[1].color[1]

\* C10: a run with the same CSV and the same selected range as an earlier
\* run yields the same retained rows and the same dataset, whatever ranges
\* were selected in between.
C10_SameRangeSameResult ==
  (pc = "done" /\ memo # <<>> /\ memo[1].range = <<min_val, max_val>>) =>
    /\ memo[1].df_filtered = df_filtered
    /\ memo[1].fig = fig

C10_Witness ==
  /\ pc = "done"
  /\ memo # <<>>
  /\ memo[1].between
  /\ memo[1].range = <<min_val, max_val>>
  /\ Len(df_filtered.index) > 0
  /\ Len(df_filtered.index) < Len(df.index)

====
